---- MODULE Spec2Model ----
(***************************************************************************)
(* Connection ledger of the DeenVerse backend: the request / follow /      *)
(* accept / reject / unfollow handlers, the Connection and Notification    *)
(* collections and the users' denormalised connectionsCount.               *)
(*                                                                         *)
(* Every handler is an async function; each `await` on the document store  *)
(* is one atomic step, and the synchronous code that follows it belongs to *)
(* the same step.  Requests of different callers interleave between steps. *)
(***************************************************************************)
EXTENDS Integers, FiniteSets, Sequences, Bags, TLC

\* ---------------------------------------------------------------- bounds
MaxProcs == 2
MaxConn == 2
MaxClock == 1
MaxPage == 2
MaxLimit == 2
MaxVersion == 3

Procs == 1..MaxProcs
ConnIds == 1..MaxConn

\* ------------------------------------------------------------- constants
\* acceptedAt: { type: Date, default: null }
Null == -1
\* The registered accounts: student 1 and the verified teachers (imaam) 2, 3.
Students == {1}
Teachers == {2, 3}
\* The callers and targets of connect, follow and unfollow requests; every
\* account calls accept and reject.
Parties == {1, 2}

\* -------------------------------------------------------------- state
VARIABLES users, connections, nextId, notifications, clock, procs, posts

vars == <<users, connections, nextId, notifications, clock, procs, posts>>

\* User documents (userSchema).  connectionsCount is the value stored in the
\* document; a missing field reads as 0 for $inc.
userDoc(r, v, e) ==
  [role |-> r, isVerified |-> v, isActive |-> TRUE, connectionsCount |-> 0,
   email |-> e]

\* The paths declared by userSchema.
userSchemaPaths ==
  {"fullName", "email", "password", "role", "islamicProfile", "bio",
   "profilePicture", "isVerified", "isActive", "lastLogin", "specializations",
   "experience", "rating", "studentsCount", "socialLinks", "location",
   "preferences"}

\* A connection document that is absent / not loaded.
NoDoc ==
  [id |-> 0, requester |-> 0, recipient |-> 0, status |-> "none",
   type |-> "none", acceptedAt |-> Null, lastInteraction |-> 0,
   createdAt |-> 0]

\* A new Connection document with the schema defaults applied; createdAt is
\* the timestamp of the schema option timestamps.
newConnection(i, req, rec, ty, now) ==
  [id |-> i, requester |-> req, recipient |-> rec, status |-> "pending",
   type |-> ty, acceptedAt |-> Null, lastInteraction |-> now,
   createdAt |-> now]

\* The accounts of the user collection.
Users == DOMAIN users

\* Post documents (postSchema): likes is the array of the users of the like
\* subdocuments, v the version key __v.
postDoc(a, st) ==
  [author |-> a, status |-> st, likes |-> <<>>, likesCount |-> 0, v |-> 0]

\* A post document that is not loaded.
NoPost == postDoc(0, "none")

\* The post collection: a published post and a draft of teacher 2.
publishedPosts == <<postDoc(2, "published"), postDoc(2, "draft")>>

\* The data of a call that has none.
NoBody ==
  [type |-> "none", priority |-> "none", recipients |-> {},
   email |-> "none", role |-> "none"]

\* A request slot with no request in flight; res, err, msg and data are
\* the last response it sent.
idleProc ==
  [op |-> "none", pc |-> "done", user |-> 0, arg |-> 0, doc |-> NoDoc,
   page |-> 0, limit |-> 0, body |-> NoBody, post |-> NoPost, res |-> 0,
   err |-> "none", msg |-> "none", data |-> <<>>]

\* The stored email addresses of the registered accounts.
accountEmail == <<"s1@x.com", "t2@x.com", "t3@x.com">>

\* The user collection: no counter has been written yet.
accounts ==
  [u \in Students \cup Teachers |->
     IF u \in Students THEN userDoc("student", FALSE, accountEmail[u])
                      ELSE userDoc("imaam", TRUE, accountEmail[u])]

Init ==
  /\ users = accounts
  /\ connections = {}
  /\ nextId = 1
  /\ notifications = EmptyBag
  /\ clock = 0
  /\ procs = [p \in Procs |-> idleProc]
  /\ posts = publishedPosts

\* ------------------------------------------------------ store operations
\* The query without its second $or branch: one direction only.
getConnectionOneWay(conns, userId1, userId2) ==
  {c \in conns : c.requester = userId1 /\ c.recipient = userId2}

\* Connection.getConnection / the $or query of followUser: the documents
\* between two users, in either direction.
getConnection(conns, userId1, userId2) ==
  {c \in conns :
     \/ (c.requester = userId1 /\ c.recipient = userId2)
     \/ (c.requester = userId2 /\ c.recipient = userId1)}

\* The collection without the unique index: no insert is refused.
noUniqueIndex(conns, req, rec) == FALSE

\* The unique index { requester: 1, recipient: 1 }: an insert of a second
\* document with the same ordered pair is refused with a duplicate-key error.
duplicateKey(conns, req, rec) ==
  \E c \in conns : c.requester = req /\ c.recipient = rec

\* The guard without the recipient condition.
findPendingAnyUser(conns, connectionId, userId) ==
  {c \in conns : c.id = connectionId /\ c.status = "pending"}

\* Connection.findOne({ _id, recipient, status: 'pending' }) of accept/reject.
findPending(conns, connectionId, userId) ==
  {c \in conns :
     c.id = connectionId /\ c.recipient = userId /\ c.status = "pending"}

\* The filter without the status condition.
findAnyStatus(conns, userId1, userId2) ==
  getConnection(conns, userId1, userId2)

\* The filter of unfollowUser's findOneAndDelete.
findAccepted(conns, userId1, userId2) ==
  {c \in getConnection(conns, userId1, userId2) : c.status = "accepted"}

\* User.findByIdAndUpdate(id, { $inc: { path: delta } }).  The schema is
\* strict (the default), so an update of a path the schema does not declare
\* is removed from the update before it is sent to the store.
findByIdAndUpdateInc(us, id, path, delta) ==
  IF path \in userSchemaPaths
    THEN [us EXCEPT ![id][path] = @ + delta]
    ELSE us

\* document.save() of a loaded document: $set of the modified paths, and of
\* no other path, on the stored document with that _id.
save(conns, doc, modified) ==
  {IF c.id = doc.id
     THEN [f \in DOMAIN c |-> IF f \in modified THEN doc[f] ELSE c[f]]
     ELSE c : c \in conns}

\* The paths assigned by the instance methods accept and reject.
acceptPaths == {"status", "acceptedAt", "lastInteraction"}
rejectPaths == {"status", "lastInteraction"}

\* connectionSchema.post('save'): counts a document that is new and accepted.
postSave(us, doc, isNew) ==
  IF isNew /\ doc.status = "accepted"
    THEN findByIdAndUpdateInc(
           findByIdAndUpdateInc(us, doc.requester, "connectionsCount", 1),
           doc.recipient, "connectionsCount", 1)
    ELSE us

\* notificationSchema.type and notificationSchema.priority (enum).
NotificationTypes ==
  {"connection_request", "connection_accepted", "post_like", "post_comment",
   "comment_like", "new_follower", "lesson_reminder", "system_announcement",
   "message_received"}
Priorities == {"low", "medium", "high", "urgent"}

\* priorityMap of notificationSchema.pre('save').
priorityMap(ty) ==
  CASE ty \in {"post_like", "comment_like", "new_follower"} -> "low"
    [] ty \in {"lesson_reminder", "system_announcement",
               "message_received"} -> "high"
    [] ty \in {"connection_request", "connection_accepted",
               "post_comment"} -> "medium"
    [] OTHER -> "none"

\* notificationSchema.pre('save') of a new document: a priority that is
\* unset or 'medium' is replaced by priorityMap[type] || 'medium'.
notificationPreSave(n) ==
  IF n.priority \in {"none", "medium"}
    THEN [n EXCEPT !.priority = IF priorityMap(n.type) = "none"
                                  THEN "medium" ELSE priorityMap(n.type)]
    ELSE n

\* The document built by createNotification and createSystemNotification:
\* priority: data.priority || 'medium'; "none" is a priority not supplied,
\* 0 a sender or related entity not supplied.
notificationData(rec, snd, ty, entity, priority) ==
  [recipient |-> rec, sender |-> snd, type |-> ty, relatedEntity |-> entity,
   priority |-> IF priority = "none" THEN "medium" ELSE priority]

\* The notification addressed to its sender.
createNotificationToSender(notifs, rec, snd, ty, entity) ==
  notifs (+) SetToBag({notificationPreSave(
                         notificationData(snd, rec, ty, entity, "none"))})

\* Notification.createNotification as called by the connection handlers,
\* which supply no priority: this.create(...) saves the document, so the
\* pre-save hook runs.
createNotification(notifs, rec, snd, ty, entity) ==
  notifs (+) SetToBag({notificationPreSave(
                         notificationData(rec, snd, ty, entity, "none"))})

\* Notification.createNotification with the priority of the call.
createNotificationWith(notifs, rec, snd, ty, entity, priority) ==
  notifs (+) SetToBag({notificationPreSave(
                         notificationData(rec, snd, ty, entity, priority))})

\* Notification.createSystemNotification(recipients, data): one document
\* per recipient, written with insertMany, which runs no save middleware.
createSystemNotification(notifs, recipients, ty, priority) ==
  notifs (+) SetToBag({notificationData(r, 0, ty, 0, priority) :
                         r \in recipients})

\* ------------------------------------------------------- error responses
\* next(new AppError(message, statusCode)) and the error middleware: the
\* request ends with that status code.
AppError(p, code, kind, message) ==
  [idleProc EXCEPT !.res = code, !.err = kind, !.msg = message]

\* res.status(code).json({ success: true, ... })
Respond(p, code, message) ==
  [idleProc EXCEPT !.res = code, !.msg = message]

\* The error middleware's answer to the store's duplicate-key error (11000).
duplicateKeyError(p) ==
  AppError(p, 400, "Conflict", "Duplicate field value")

\* The error middleware's answer to any other store or library exception.
serverError(p) ==
  AppError(p, 500, "ServerError", "Something went wrong")

\* The routes without the role check.
authorizeAnyone(us, userId, role) == TRUE

\* authorize(role): the route is refused unless the caller has the role.
authorize(us, userId, role) == us[userId].role = role

Begin(p, o, u, a, next) ==
  [op |-> o, pc |-> next, user |-> u, arg |-> a, doc |-> NoDoc,
   page |-> 0, limit |-> 0, body |-> NoBody, post |-> NoPost, res |-> 0,
   err |-> "none", msg |-> "none", data |-> <<>>]

Idle(p) == procs[p].pc = "done"
At(p, o, l) == procs[p].op = o /\ procs[p].pc = l

SetProc(p, r) == procs' = [procs EXCEPT ![p] = r]

\* connectionSchema.pre('save'): a self-connection is refused.
preSave(doc) == doc.requester # doc.recipient

\* Connection.create under an index that covers no rejected document.
createOutcomeRejectedFree(conns, req, rec) ==
  IF ~preSave([requester |-> req, recipient |-> rec]) THEN "invalid"
  ELSE IF duplicateKey({c \in conns : c.status # "rejected"}, req, rec)
    THEN "duplicate"
  ELSE "ok"

\* Connection.create(...): pre-save hook, insert under the unique index,
\* post-save hook.  The outcome is "invalid", "duplicate" or "ok".
createOutcome(conns, req, rec) ==
  IF ~preSave([requester |-> req, recipient |-> rec]) THEN "invalid"
  ELSE IF duplicateKey(conns, req, rec) THEN "duplicate"
  ELSE "ok"

\* The Connection.create step shared by requestConnection and followUser.
Create(p, ty, next) ==
  LET u == procs[p].user
      t == procs[p].arg
      outcome == createOutcome(connections, u, t)
      doc == newConnection(nextId, u, t, ty, clock)
  IN  CASE outcome = "invalid" ->
             /\ SetProc(p, AppError(p, 400, "InvalidOperation",
                                    "Cannot connect to yourself"))
             /\ UNCHANGED <<users, connections, nextId, notifications, clock>>
        [] outcome = "duplicate" ->
             /\ SetProc(p, duplicateKeyError(p))
             /\ UNCHANGED <<users, connections, nextId, notifications, clock>>
        [] outcome = "ok" ->
             /\ nextId <= MaxConn
             /\ connections' = connections \cup {doc}
             /\ nextId' = nextId + 1
             /\ users' = postSave(users, doc, TRUE)
             /\ SetProc(p, IF next = "done"
                             THEN Respond(p, 200,
                                          "Follow request sent successfully")
                             ELSE [procs[p] EXCEPT !.pc = next, !.doc = doc])
             /\ UNCHANGED <<notifications, clock>>

\* The check of an existing connection shared by requestConnection and
\* followUser: findOne returns one of the matching documents.
CheckExisting(p, acceptedMsg) ==
  LET found == getConnection(connections, procs[p].user, procs[p].arg)
  IN  /\ \/ /\ found = {}
            /\ SetProc(p, [procs[p] EXCEPT !.pc = "create"])
         \/ \E c \in found :
              SetProc(p,
                IF c.status = "accepted"
                  THEN AppError(p, 400, "Conflict", acceptedMsg)
                ELSE IF c.status = "pending"
                  THEN AppError(p, 400, "Conflict",
                                "Connection request already pending")
                ELSE [procs[p] EXCEPT !.pc = "create"])
      /\ UNCHANGED <<users, connections, nextId, notifications, clock>>

\* The handlers without the comparison of target and caller.
neverSelf(targetId, userId) == FALSE

\* imaamId === userId.toString() / id === currentUserId.toString()
isSelf(targetId, userId) == targetId = userId

\* ------------------------------------------------------ requestConnection
requestConnection_begin(p) ==
  /\ Idle(p)
  /\ \E u \in Parties, t \in Parties :
       SetProc(p, IF isSelf(t, u)
                    THEN AppError(p, 400, "InvalidOperation",
                                  "Cannot connect to yourself")
                    ELSE Begin(p, "connect", u, t, "findImaam"))
  /\ UNCHANGED <<users, connections, nextId, notifications, clock>>
  /\ UNCHANGED posts

\* The query without the isVerified condition.
findImaamUnverified(us, imaamId) ==
  /\ imaamId \in DOMAIN us
  /\ us[imaamId].role = "imaam"
  /\ us[imaamId].isActive

\* User.findOne({ _id, role: 'imaam', isVerified: true, isActive: true })
\* finds a document.
findImaam(us, imaamId) ==
  /\ imaamId \in DOMAIN us
  /\ us[imaamId].role = "imaam"
  /\ us[imaamId].isVerified
  /\ us[imaamId].isActive

requestConnection_findImaam(p) ==
  /\ At(p, "connect", "findImaam")
  /\ SetProc(p, IF findImaam(users, procs[p].arg)
                  THEN [procs[p] EXCEPT !.pc = "getConnection"]
                  ELSE AppError(p, 404, "NotFound",
                                "Imaam not found or not verified"))
  /\ UNCHANGED <<users, connections, nextId, notifications, clock>>
  /\ UNCHANGED posts

requestConnection_getConnection(p) ==
  /\ At(p, "connect", "getConnection")
  /\ CheckExisting(p, "Already connected to this Imaam")
  /\ UNCHANGED posts

requestConnection_create(p) ==
  /\ At(p, "connect", "create")
  /\ Create(p, "student-teacher", "notify")
  /\ UNCHANGED posts

\* createNotification, then populate (a read) and the 201 response.
requestConnection_notify(p) ==
  /\ At(p, "connect", "notify")
  /\ notifications' = createNotification(notifications, procs[p].arg,
                        procs[p].user, "connection_request", procs[p].doc.id)
  /\ SetProc(p, Respond(p, 201, "Connection request sent successfully"))
  /\ UNCHANGED <<users, connections, nextId, clock>>
  /\ UNCHANGED posts

\* ------------------------------------------------------------- followUser
followUser_begin(p) ==
  /\ Idle(p)
  /\ \E u \in Parties, t \in Parties :
       SetProc(p, IF isSelf(t, u)
                    THEN AppError(p, 400, "InvalidOperation",
                                  "Cannot follow yourself")
                    ELSE Begin(p, "follow", u, t, "findTarget"))
  /\ UNCHANGED <<users, connections, nextId, notifications, clock>>
  /\ UNCHANGED posts

\* The lookup without the isActive test.
findTargetAnyState(us, targetUserId) == targetUserId \in DOMAIN us

\* User.findById(targetUserId) finds an account and it is active.
findTarget(us, targetUserId) ==
  /\ targetUserId \in DOMAIN us
  /\ us[targetUserId].isActive

followUser_findTarget(p) ==
  /\ At(p, "follow", "findTarget")
  /\ SetProc(p, IF findTarget(users, procs[p].arg)
                  THEN [procs[p] EXCEPT !.pc = "getConnection"]
                  ELSE AppError(p, 404, "NotFound", "User not found"))
  /\ UNCHANGED <<users, connections, nextId, notifications, clock>>
  /\ UNCHANGED posts

followUser_findExisting(p) ==
  /\ At(p, "follow", "getConnection")
  /\ CheckExisting(p, "Already following this user")
  /\ UNCHANGED posts

\* Connection.create, then populate (a read) and the 200 response.
followUser_create(p) ==
  /\ At(p, "follow", "create")
  /\ Create(p, "peer", "done")
  /\ UNCHANGED posts

\* ----------------------------------------------------------- unfollowUser
unfollowUser_begin(p) ==
  /\ Idle(p)
  /\ \E u \in Parties, t \in Parties :
       SetProc(p, Begin(p, "unfollow", u, t, "findOneAndDelete"))
  /\ UNCHANGED <<users, connections, nextId, notifications, clock>>
  /\ UNCHANGED posts

\* Connection.findOneAndDelete: find and remove in one store operation.
unfollowUser_findOneAndDelete(p) ==
  /\ At(p, "unfollow", "findOneAndDelete")
  /\ LET found == findAccepted(connections, procs[p].user, procs[p].arg)
     IN  \/ /\ found = {}
            /\ SetProc(p, AppError(p, 404, "NotFound",
                                   "Not following this user"))
            /\ UNCHANGED connections
         \/ \E c \in found :
              /\ connections' = connections \ {c}
              /\ SetProc(p, [procs[p] EXCEPT !.pc = "decCurrent", !.doc = c])
  /\ UNCHANGED <<users, nextId, notifications, clock>>
  /\ UNCHANGED posts

unfollowUser_decCurrent(p) ==
  /\ At(p, "unfollow", "decCurrent")
  /\ users' = findByIdAndUpdateInc(users, procs[p].user,
                                   "connectionsCount", -1)
  /\ SetProc(p, [procs[p] EXCEPT !.pc = "decTarget"])
  /\ UNCHANGED <<connections, nextId, notifications, clock>>
  /\ UNCHANGED posts

unfollowUser_decTarget(p) ==
  /\ At(p, "unfollow", "decTarget")
  /\ users' = findByIdAndUpdateInc(users, procs[p].arg,
                                   "connectionsCount", -1)
  /\ SetProc(p, Respond(p, 200, "Unfollowed successfully"))
  /\ UNCHANGED <<connections, nextId, notifications, clock>>
  /\ UNCHANGED posts

\* ------------------------------------------------------- acceptConnection
\* connectionSchema.methods.accept, up to the call of save().
accept(c) ==
  [c EXCEPT !.status = "accepted", !.acceptedAt = clock,
            !.lastInteraction = clock]

\* reject without the assignment of lastInteraction.
rejectKeepsDate(c) == [c EXCEPT !.status = "rejected"]

\* connectionSchema.methods.reject, up to the call of save().
reject(c) ==
  [c EXCEPT !.status = "rejected", !.lastInteraction = clock]

\* save() of the loaded document: an update by _id; it fails when no
\* document with that _id is left in the collection.
Save(p, modified, next) ==
  LET doc == procs[p].doc
  IN  IF \E c \in connections : c.id = doc.id
        THEN /\ connections' = save(connections, doc, modified)
             /\ users' = postSave(users, doc, FALSE)
             /\ SetProc(p, next)
             /\ UNCHANGED <<nextId, notifications, clock>>
        ELSE /\ SetProc(p, serverError(p))
             /\ UNCHANGED <<users, connections, nextId, notifications, clock>>

acceptConnection_begin(p) ==
  /\ Idle(p)
  /\ \E u \in Users, c \in ConnIds :
       SetProc(p, IF authorize(users, u, "imaam")
                    THEN Begin(p, "accept", u, c, "findOne")
                    ELSE AppError(p, 403, "Forbidden", "Access denied"))
  /\ UNCHANGED <<users, connections, nextId, notifications, clock>>
  /\ UNCHANGED posts

\* Connection.findOne with the guard.  On a match the handler calls the
\* instance method, which assigns the new status and the dates to the loaded
\* document and then starts save().
acceptConnection_findOne(p) ==
  /\ At(p, "accept", "findOne")
  /\ LET found == findPending(connections, procs[p].arg, procs[p].user)
     IN  \/ /\ found = {}
            /\ SetProc(p, AppError(p, 404, "NotFound",
                                   "Connection request not found"))
         \/ \E c \in found :
              SetProc(p, [procs[p] EXCEPT !.pc = "save", !.doc = accept(c)])
  /\ UNCHANGED <<users, connections, nextId, notifications, clock>>
  /\ UNCHANGED posts

acceptConnection_save(p) ==
  /\ At(p, "accept", "save")
  /\ Save(p, acceptPaths, [procs[p] EXCEPT !.pc = "incRequester"])
  /\ UNCHANGED posts

acceptConnection_incRequester(p) ==
  /\ At(p, "accept", "incRequester")
  /\ users' = findByIdAndUpdateInc(users, procs[p].doc.requester,
                                   "connectionsCount", 1)
  /\ SetProc(p, [procs[p] EXCEPT !.pc = "incRecipient"])
  /\ UNCHANGED <<connections, nextId, notifications, clock>>
  /\ UNCHANGED posts

acceptConnection_incRecipient(p) ==
  /\ At(p, "accept", "incRecipient")
  /\ users' = findByIdAndUpdateInc(users, procs[p].doc.recipient,
                                   "connectionsCount", 1)
  /\ SetProc(p, [procs[p] EXCEPT !.pc = "notify"])
  /\ UNCHANGED <<connections, nextId, notifications, clock>>
  /\ UNCHANGED posts

\* createNotification, then populate (a read) and the 200 response.
acceptConnection_notify(p) ==
  /\ At(p, "accept", "notify")
  /\ notifications' = createNotification(notifications,
                        procs[p].doc.requester, procs[p].doc.recipient,
                        "connection_accepted", procs[p].doc.id)
  /\ SetProc(p, Respond(p, 200, "Connection request accepted successfully"))
  /\ UNCHANGED <<users, connections, nextId, clock>>
  /\ UNCHANGED posts

\* ------------------------------------------------------- rejectConnection
rejectConnection_begin(p) ==
  /\ Idle(p)
  /\ \E u \in Users, c \in ConnIds :
       SetProc(p, IF authorize(users, u, "imaam")
                    THEN Begin(p, "reject", u, c, "findOne")
                    ELSE AppError(p, 403, "Forbidden", "Access denied"))
  /\ UNCHANGED <<users, connections, nextId, notifications, clock>>
  /\ UNCHANGED posts

rejectConnection_findOne(p) ==
  /\ At(p, "reject", "findOne")
  /\ LET found == findPending(connections, procs[p].arg, procs[p].user)
     IN  \/ /\ found = {}
            /\ SetProc(p, AppError(p, 404, "NotFound",
                                   "Connection request not found"))
         \/ \E c \in found :
              SetProc(p, [procs[p] EXCEPT !.pc = "save", !.doc = reject(c)])
  /\ UNCHANGED <<users, connections, nextId, notifications, clock>>
  /\ UNCHANGED posts

rejectConnection_save(p) ==
  /\ At(p, "reject", "save")
  /\ Save(p, rejectPaths,
          Respond(p, 200, "Connection request rejected successfully"))
  /\ UNCHANGED posts

\* ------------------------------------------------------------------ time
\* The wall clock read by new Date() advances between any two steps.
Tick ==
  /\ clock < MaxClock
  /\ clock' = clock + 1
  /\ UNCHANGED <<users, connections, nextId, notifications, procs>>
  /\ UNCHANGED posts

\* --------------------------------------------------------- specification
Next ==
  \/ \E p \in Procs : requestConnection_begin(p)
  \/ \E p \in Procs : requestConnection_findImaam(p)
  \/ \E p \in Procs : requestConnection_getConnection(p)
  \/ \E p \in Procs : requestConnection_create(p)
  \/ \E p \in Procs : requestConnection_notify(p)
  \/ \E p \in Procs : followUser_begin(p)
  \/ \E p \in Procs : followUser_findTarget(p)
  \/ \E p \in Procs : followUser_findExisting(p)
  \/ \E p \in Procs : followUser_create(p)
  \/ \E p \in Procs : unfollowUser_begin(p)
  \/ \E p \in Procs : unfollowUser_findOneAndDelete(p)
  \/ \E p \in Procs : unfollowUser_decCurrent(p)
  \/ \E p \in Procs : unfollowUser_decTarget(p)
  \/ \E p \in Procs : acceptConnection_begin(p)
  \/ \E p \in Procs : acceptConnection_findOne(p)
  \/ \E p \in Procs : acceptConnection_save(p)
  \/ \E p \in Procs : acceptConnection_incRequester(p)
  \/ \E p \in Procs : acceptConnection_incRecipient(p)
  \/ \E p \in Procs : acceptConnection_notify(p)
  \/ \E p \in Procs : rejectConnection_begin(p)
  \/ \E p \in Procs : rejectConnection_findOne(p)
  \/ \E p \in Procs : rejectConnection_save(p)
  \/ Tick

Spec == Init /\ [][Next]_vars

\* ------------------------------------------------- racing create requests
\* Every slot holds a request-connection call of the same caller for the
\* same teacher, all issued against an empty ledger.
InitCreateRace ==
  /\ users = accounts
  /\ connections = {}
  /\ nextId = 1
  /\ notifications = EmptyBag
  /\ clock = 0
  /\ \E a \in Students \cup Teachers, b \in Teachers :
       /\ a # b
       /\ procs = [p \in Procs |-> Begin(p, "connect", a, b, "findImaam")]
  /\ posts = publishedPosts

NextCreateRace ==
  \/ \E p \in Procs : requestConnection_findImaam(p)
  \/ \E p \in Procs : requestConnection_getConnection(p)
  \/ \E p \in Procs : requestConnection_create(p)
  \/ \E p \in Procs : requestConnection_notify(p)
  \/ Tick

SpecCreateRace == InitCreateRace /\ [][NextCreateRace]_vars

\* ------------------------------------------------- racing accept requests
\* Student 1 has asked teacher 2 (record 1, pending, notification sent);
\* every slot holds an accept call of teacher 2 for record 1.
InitAcceptRace ==
  /\ users = accounts
  /\ connections = {newConnection(1, 1, 2, "student-teacher", 0)}
  /\ nextId = 2
  /\ notifications = createNotification(EmptyBag, 2, 1,
                                        "connection_request", 1)
  /\ clock = 0
  /\ procs = [p \in Procs |-> Begin(p, "accept", 2, 1, "findOne")]
  /\ posts = publishedPosts

NextAcceptRace ==
  \/ \E p \in Procs : acceptConnection_findOne(p)
  \/ \E p \in Procs : acceptConnection_save(p)
  \/ \E p \in Procs : acceptConnection_incRequester(p)
  \/ \E p \in Procs : acceptConnection_incRecipient(p)
  \/ \E p \in Procs : acceptConnection_notify(p)
  \/ Tick

SpecAcceptRace == InitAcceptRace /\ [][NextAcceptRace]_vars

\* ------------------------------------- racing updates of a shared counter
\* Student 1 has a record with teacher 2 (record 1) and with teacher 3
\* (record 2), each pending or accepted.  Slot p works on record rid(p): the
\* teacher accepts it when it is pending, the student unfollows the teacher
\* when it is accepted.  Account 1 is shared by all of them.
rid(p) == ((p - 1) % 2) + 1

ledgerRecord(i, st) ==
  [newConnection(i, 1, i + 1, "student-teacher", 0) EXCEPT
     !.status = st, !.acceptedAt = IF st = "accepted" THEN 0 ELSE Null]

ledgerNotifications(st1, st2) ==
  LET n0 == createNotification(
              createNotification(EmptyBag, 2, 1, "connection_request", 1),
              3, 1, "connection_request", 2)
      n1 == IF st1 = "accepted"
              THEN createNotification(n0, 1, 2, "connection_accepted", 1)
              ELSE n0
  IN  IF st2 = "accepted"
        THEN createNotification(n1, 1, 3, "connection_accepted", 2)
        ELSE n1

InitCounterRace ==
  /\ users = accounts
  /\ nextId = 3
  /\ clock = 0
  /\ \E st \in [{1, 2} -> {"pending", "accepted"}] :
       /\ connections = {ledgerRecord(i, st[i]) : i \in {1, 2}}
       /\ notifications = ledgerNotifications(st[1], st[2])
       /\ procs = [p \in Procs |->
                     IF st[rid(p)] = "pending"
                       THEN Begin(p, "accept", rid(p) + 1, rid(p), "findOne")
                       ELSE Begin(p, "unfollow", 1, rid(p) + 1,
                                  "findOneAndDelete")]
  /\ posts = publishedPosts

NextCounterRace ==
  \/ \E p \in Procs : acceptConnection_findOne(p)
  \/ \E p \in Procs : acceptConnection_save(p)
  \/ \E p \in Procs : acceptConnection_incRequester(p)
  \/ \E p \in Procs : acceptConnection_incRecipient(p)
  \/ \E p \in Procs : acceptConnection_notify(p)
  \/ \E p \in Procs : unfollowUser_findOneAndDelete(p)
  \/ \E p \in Procs : unfollowUser_decCurrent(p)
  \/ \E p \in Procs : unfollowUser_decTarget(p)
  \/ Tick

SpecCounterRace == InitCounterRace /\ [][NextCounterRace]_vars

\* ----------------------------------------------- scenario: target accounts
\* An id that belongs to no account.
Unregistered == {4}

\* Request-connection calls of accounts 1 and 3 to a student, to teacher 2,
\* who may be unverified or deactivated, and to an id without an account.
InitEligibility ==
  /\ \E v \in BOOLEAN, a \in BOOLEAN :
       users = [accounts EXCEPT ![2].isVerified = v, ![2].isActive = a]
  /\ connections = {}
  /\ nextId = 1
  /\ notifications = EmptyBag
  /\ clock = 0
  /\ procs \in [Procs ->
                  {Begin(1, "connect", u, t, "findImaam") :
                     u \in {1, 3}, t \in {1, 2} \cup Unregistered}]
  /\ \A p \in Procs : ~isSelf(procs[p].arg, procs[p].user)
  /\ posts = publishedPosts

SpecEligibility == InitEligibility /\ [][NextCreateRace]_vars

\* ------------------------------------- scenario: notification write fails
\* Notification.createNotification rejects (the store write fails).  The
\* handlers await it with no try/catch, so catchAsync passes the error to
\* the error middleware and the statements after it do not run.
requestConnection_notifyFails(p) ==
  /\ At(p, "connect", "notify")
  /\ SetProc(p, serverError(p))
  /\ UNCHANGED <<users, connections, nextId, notifications, clock>>
  /\ UNCHANGED posts

acceptConnection_notifyFails(p) ==
  /\ At(p, "accept", "notify")
  /\ SetProc(p, serverError(p))
  /\ UNCHANGED <<users, connections, nextId, notifications, clock>>
  /\ UNCHANGED posts

\* Teacher 2 has a pending request of account 3; each slot holds either a
\* request-connection of student 1 to teacher 2 or teacher 2's accept of the
\* pending request.
InitNotifyFault ==
  /\ users = accounts
  /\ connections = {newConnection(1, 3, 2, "student-teacher", 0)}
  /\ nextId = 2
  /\ notifications =
       createNotification(EmptyBag, 2, 3, "connection_request", 1)
  /\ clock = 0
  /\ procs \in [Procs -> {Begin(1, "connect", 1, 2, "findImaam"),
                          Begin(1, "accept", 2, 1, "findOne")}]
  /\ posts = publishedPosts

NextNotifyFault ==
  \/ \E p \in Procs : requestConnection_findImaam(p)
  \/ \E p \in Procs : requestConnection_getConnection(p)
  \/ \E p \in Procs : requestConnection_create(p)
  \/ \E p \in Procs : requestConnection_notify(p)
  \/ \E p \in Procs : requestConnection_notifyFails(p)
  \/ \E p \in Procs : acceptConnection_findOne(p)
  \/ \E p \in Procs : acceptConnection_save(p)
  \/ \E p \in Procs : acceptConnection_incRequester(p)
  \/ \E p \in Procs : acceptConnection_incRecipient(p)
  \/ \E p \in Procs : acceptConnection_notify(p)
  \/ \E p \in Procs : acceptConnection_notifyFails(p)
  \/ Tick

SpecNotifyFault == InitNotifyFault /\ [][NextNotifyFault]_vars

\* ------------------------------------------------ getConnectionRequests
\* parseInt(req.query.page) || 1 and parseInt(req.query.limit) || 10
DefaultPage == 1
DefaultLimit == 10

\* A query parameter that is absent (Null), or a number the pagination
\* schema admits.
PageInputs == {Null} \cup (1..MaxPage)
LimitInputs == {Null} \cup (1..MaxLimit)

\* parseInt(v) || d
parseIntOr(v, d) == IF v = Null THEN d ELSE v

\* The sequences that list every element of S once.
Orderings(S) ==
  {s \in [1..Cardinality(S) -> S] :
     \A i, j \in 1..Cardinality(S) : i # j => s[i] # s[j]}

\* The listing sorted oldest first.
getPendingConnectionsOldestFirst(conns, userId, page, limit) ==
  LET found == {c \in conns : c.recipient = userId /\ c.status = "pending"}
      n == Cardinality(found)
      skip == (page - 1) * limit
      len == IF n - skip < 0 THEN 0
             ELSE IF n - skip < limit THEN n - skip ELSE limit
  IN  {[i \in 1..len |-> s[skip + i]] :
         s \in {o \in Orderings(found) :
                  \A i, j \in 1..n :
                    i < j => o[i].createdAt <= o[j].createdAt}}

\* Connection.getPendingConnections(userId, page, limit): find by recipient
\* and status pending, sort by createdAt descending, skip, limit.  The
\* store may return documents of equal createdAt in either order, so the
\* value is the set of the possible results.
getPendingConnections(conns, userId, page, limit) ==
  LET found == {c \in conns : c.recipient = userId /\ c.status = "pending"}
      n == Cardinality(found)
      skip == (page - 1) * limit
      len == IF n - skip < 0 THEN 0
             ELSE IF n - skip < limit THEN n - skip ELSE limit
  IN  {[i \in 1..len |-> s[skip + i]] :
         s \in {o \in Orderings(found) :
                  \A i, j \in 1..n :
                    i < j => o[i].createdAt >= o[j].createdAt}}

\* The route: protect, authorize('imaam'), validateQuery(pagination).
getConnectionRequests_begin(p) ==
  /\ Idle(p)
  /\ \E u \in Users, pg \in PageInputs, lim \in LimitInputs :
       SetProc(p, IF authorize(users, u, "imaam")
                    THEN [Begin(p, "list", u, 0, "find") EXCEPT
                            !.page = parseIntOr(pg, DefaultPage),
                            !.limit = parseIntOr(lim, DefaultLimit)]
                    ELSE AppError(p, 403, "Forbidden", "Access denied"))
  /\ UNCHANGED <<users, connections, nextId, notifications, clock>>
  /\ UNCHANGED posts

\* await Connection.getPendingConnections(...) and the 200 response.
getConnectionRequests_find(p) ==
  /\ At(p, "list", "find")
  /\ \E requests \in getPendingConnections(connections, procs[p].user,
                                            procs[p].page, procs[p].limit) :
       SetProc(p, [Respond(p, 200, "none") EXCEPT !.data = requests])
  /\ UNCHANGED <<users, connections, nextId, notifications, clock>>
  /\ UNCHANGED posts

\* Student 1 and teacher 3 each send a request-connection, to teacher 2 or
\* to teacher 3; afterwards the teachers list, accept and reject.
InitListing ==
  /\ users = accounts
  /\ connections = {}
  /\ nextId = 1
  /\ notifications = EmptyBag
  /\ clock = 0
  /\ procs \in [Procs -> {Begin(1, "connect", 1, 2, "findImaam"),
                          Begin(1, "connect", 3, 2, "findImaam"),
                          Begin(1, "connect", 1, 3, "findImaam")}]
  /\ posts = publishedPosts

NextListing ==
  \/ \E p \in Procs : requestConnection_findImaam(p)
  \/ \E p \in Procs : requestConnection_getConnection(p)
  \/ \E p \in Procs : requestConnection_create(p)
  \/ \E p \in Procs : requestConnection_notify(p)
  \/ \E p \in Procs : acceptConnection_begin(p)
  \/ \E p \in Procs : acceptConnection_findOne(p)
  \/ \E p \in Procs : acceptConnection_save(p)
  \/ \E p \in Procs : acceptConnection_incRequester(p)
  \/ \E p \in Procs : acceptConnection_incRecipient(p)
  \/ \E p \in Procs : acceptConnection_notify(p)
  \/ \E p \in Procs : rejectConnection_begin(p)
  \/ \E p \in Procs : rejectConnection_findOne(p)
  \/ \E p \in Procs : rejectConnection_save(p)
  \/ \E p \in Procs : getConnectionRequests_begin(p)
  \/ \E p \in Procs : getConnectionRequests_find(p)
  \/ Tick

SpecListing == InitListing /\ [][NextListing]_vars

\* ------------------------------------------- scenario: created priorities
\* A caller's Notification.createNotification(data): this.create(...).
createNotification_create(p) ==
  /\ At(p, "createNotification", "create")
  /\ notifications' =
       createNotificationWith(notifications, procs[p].arg, procs[p].user,
                              procs[p].body.type, 0, procs[p].body.priority)
  /\ SetProc(p, Respond(p, 0, "none"))
  /\ UNCHANGED <<users, connections, nextId, clock>>
  /\ UNCHANGED posts

\* A caller's Notification.createSystemNotification(recipients, data).
createSystemNotification_insertMany(p) ==
  /\ At(p, "createSystemNotification", "insertMany")
  /\ notifications' =
       createSystemNotification(notifications, procs[p].body.recipients,
                                procs[p].body.type, procs[p].body.priority)
  /\ SetProc(p, Respond(p, 0, "none"))
  /\ UNCHANGED <<users, connections, nextId, clock>>
  /\ UNCHANGED posts

\* Every slot holds a call of createNotification (from account 2 to account
\* 1) or of createSystemNotification (to account 1 or to accounts 1 and 2),
\* of any type, with any priority or with none.
InitPriority ==
  /\ users = accounts
  /\ connections = {}
  /\ nextId = 1
  /\ notifications = EmptyBag
  /\ clock = 0
  /\ procs \in
       [Procs ->
          {[Begin(1, "createNotification", 2, 1, "create") EXCEPT
              !.body = [NoBody EXCEPT !.type = ty, !.priority = pr]] :
             ty \in NotificationTypes, pr \in Priorities \cup {"none"}}
          \cup
          {[Begin(1, "createSystemNotification", 0, 0, "insertMany") EXCEPT
              !.body = [NoBody EXCEPT !.type = ty, !.priority = pr,
                                      !.recipients = rs]] :
             ty \in NotificationTypes, pr \in Priorities \cup {"none"},
             rs \in {{1}, {1, 2}}}]
  /\ posts = publishedPosts

NextPriority ==
  \/ \E p \in Procs : createNotification_create(p)
  \/ \E p \in Procs : createSystemNotification_insertMany(p)

SpecPriority == InitPriority /\ [][NextPriority]_vars

\* --------------------------------------------------------------- register
MaxUsers == 5

\* The email addresses sent to register: two spellings of one address, a
\* second address, and another spelling of the address of account 2.
RegisterEmails == {"a@x.com", "A@X.com", "b@x.com", "T2@x.com"}

\* userSchema.email { lowercase: true }: String.prototype.toLowerCase.
lowercase(e) ==
  CASE e = "A@X.com" -> "a@x.com"
    [] e = "T2@x.com" -> "t2@x.com"
    [] OTHER -> e

\* The query with the email as it was sent.
findOneByEmailAsSent(us, email) ==
  {u \in DOMAIN us : us[u].email = email}

\* User.findOne({ email }): the filter is cast with the schema's setters,
\* so the stored addresses are compared with the lowercased email.
findOneByEmail(us, email) ==
  {u \in DOMAIN us : us[u].email = lowercase(email)}

\* The unique index of userSchema.email, on the stored (lowercased) value.
duplicateEmail(us, email) ==
  \E u \in DOMAIN us : us[u].email = lowercase(email)

\* POST /api/auth/register with the body validated by the register schema.
register_begin(p) ==
  /\ Idle(p)
  /\ \E e \in RegisterEmails, r \in {"student", "imaam"} :
       SetProc(p, [Begin(p, "register", 0, 0, "findOne") EXCEPT
                     !.body = [NoBody EXCEPT !.email = e, !.role = r]])
  /\ UNCHANGED <<users, connections, nextId, notifications, clock>>
  /\ UNCHANGED posts

register_findOne(p) ==
  /\ At(p, "register", "findOne")
  /\ SetProc(p, IF findOneByEmail(users, procs[p].body.email) # {}
                  THEN AppError(p, 400, "Conflict",
                                "User with this email already exists")
                  ELSE [procs[p] EXCEPT !.pc = "create"])
  /\ UNCHANGED <<users, connections, nextId, notifications, clock>>
  /\ UNCHANGED posts

\* User.create(...) under the unique index, then the 201 response.
register_create(p) ==
  /\ At(p, "register", "create")
  /\ IF duplicateEmail(users, procs[p].body.email)
       THEN /\ SetProc(p, duplicateKeyError(p))
            /\ UNCHANGED users
       ELSE /\ Cardinality(DOMAIN users) < MaxUsers
            /\ users' =
                 [u \in DOMAIN users \cup {Cardinality(DOMAIN users) + 1} |->
                    IF u \in DOMAIN users
                      THEN users[u]
                      ELSE userDoc(procs[p].body.role, FALSE,
                                   lowercase(procs[p].body.email))]
            /\ SetProc(p, Respond(p, 201, "User registered successfully"))
  /\ UNCHANGED <<connections, nextId, notifications, clock>>
  /\ UNCHANGED posts

NextRegister ==
  \/ \E p \in Procs : register_begin(p)
  \/ \E p \in Procs : register_findOne(p)
  \/ \E p \in Procs : register_create(p)

SpecRegister == Init /\ [][NextRegister]_vars

\* ------------------------------------------------------ likePost, unlikePost
\* The users of an array of likes.
likers(likes) == {likes[i] : i \in DOMAIN likes}

\* this.likes.filter(like => like.user.toString() !== userId.toString())
withoutUser(likes, userId) == SelectSeq(likes, LAMBDA u : u # userId)

\* postSchema.methods.isLikedBy
isLikedBy(post, userId) == userId \in likers(post.likes)

\* The in-memory document after addLike has changed it: a like of the user
\* is removed if there is one, and pushed otherwise; likesCount is the
\* length of the array.
addLike(post, userId) ==
  LET likes == IF isLikedBy(post, userId)
                 THEN withoutUser(post.likes, userId)
                 ELSE Append(post.likes, userId)
  IN  [post EXCEPT !.likes = likes, !.likesCount = Len(likes)]

\* this.save() after addLike, as the update the document sends.  A removed
\* like assigns a new array: $set of likes under the condition that the
\* stored version is the loaded one (otherwise VersionError, nothing is
\* written).  An added like is a push on the loaded array: $push of the
\* new element, with no condition on the version.  likesCount is $set to
\* the length of the in-memory array; the version is incremented.
savePost(stored, loaded, userId) ==
  IF isLikedBy(loaded, userId)
    THEN IF stored.v # loaded.v
           THEN stored
           ELSE [stored EXCEPT !.likes = withoutUser(loaded.likes, userId),
                               !.likesCount = addLike(loaded, userId).likesCount,
                               !.v = @ + 1]
    ELSE [stored EXCEPT !.likes = Append(@, userId),
                        !.likesCount = addLike(loaded, userId).likesCount,
                        !.v = @ + 1]

\* The save is refused with a VersionError.
versionError(stored, loaded, userId) ==
  isLikedBy(loaded, userId) /\ stored.v # loaded.v

\* POST /posts/:id/like and DELETE /posts/:id/unlike of an authenticated
\* user.
PostBegin(p, o) ==
  /\ \E u \in Parties, i \in DOMAIN posts :
       SetProc(p, Begin(p, o, u, i, "findById"))
  /\ UNCHANGED <<users, connections, nextId, notifications, clock, posts>>

\* Post.findById and the two checks that answer 'Post not found'.
PostFindById(p, o) ==
  /\ SetProc(p, IF procs[p].arg \in DOMAIN posts
                    /\ posts[procs[p].arg].status = "published"
                  THEN [procs[p] EXCEPT !.pc = "addLike",
                                        !.post = posts[procs[p].arg]]
                  ELSE AppError(p, 404, "NotFound", "Post not found"))
  /\ UNCHANGED <<users, connections, nextId, notifications, clock, posts>>

\* The response of likePost and unlikePost: the in-memory post with
\* isLiked = post.isLikedBy(req.user._id).
PostRespond(p, message, post) ==
  [Respond(p, 200, message) EXCEPT
     !.data = <<[isLiked |-> isLikedBy(post, procs[p].user),
                 likesCount |-> post.likesCount]>>]

\* await post.addLike(req.user._id): the document is changed in memory and
\* saved; next is "notify" or, when the response follows, "done".
PostAddLike(p, o, next, message) ==
  LET i == procs[p].arg
      u == procs[p].user
      changed == addLike(procs[p].post, u)
  IN  /\ IF versionError(posts[i], procs[p].post, u)
           THEN /\ SetProc(p, serverError(p))
                /\ UNCHANGED posts
           ELSE /\ posts[i].v < MaxVersion
                /\ posts' = [posts EXCEPT
                               ![i] = savePost(@, procs[p].post, u)]
                /\ SetProc(p, IF next = "done"
                                THEN PostRespond(p, message, changed)
                                ELSE [procs[p] EXCEPT !.pc = next,
                                                      !.post = changed])
      /\ UNCHANGED <<users, connections, nextId, notifications, clock>>

likePost_begin(p) ==
  /\ Idle(p)
  /\ PostBegin(p, "like")

likePost_findById(p) ==
  /\ At(p, "like", "findById")
  /\ PostFindById(p, "like")

\* The like of the author's own post is answered without a notification.
likePost_addLike(p) ==
  /\ At(p, "like", "addLike")
  /\ PostAddLike(p, "like",
                 IF procs[p].post.author = procs[p].user THEN "done"
                                                         ELSE "notify",
                 "Post liked successfully")

\* createNotification for the post's author, then the 200 response.
likePost_notify(p) ==
  /\ At(p, "like", "notify")
  /\ notifications' =
       createNotification(notifications, procs[p].post.author,
                          procs[p].user, "post_like", procs[p].arg)
  /\ SetProc(p, PostRespond(p, "Post liked successfully", procs[p].post))
  /\ UNCHANGED <<users, connections, nextId, clock, posts>>

unlikePost_begin(p) ==
  /\ Idle(p)
  /\ PostBegin(p, "unlike")

unlikePost_findById(p) ==
  /\ At(p, "unlike", "findById")
  /\ PostFindById(p, "unlike")

\* await post.addLike(req.user._id) ("This toggles the like").
unlikePost_addLike(p) ==
  /\ At(p, "unlike", "addLike")
  /\ PostAddLike(p, "unlike", "done", "Post unliked successfully")

NextLikes ==
  \/ \E p \in Procs : likePost_begin(p)
  \/ \E p \in Procs : likePost_findById(p)
  \/ \E p \in Procs : likePost_addLike(p)
  \/ \E p \in Procs : likePost_notify(p)
  \/ \E p \in Procs : unlikePost_begin(p)
  \/ \E p \in Procs : unlikePost_findById(p)
  \/ \E p \in Procs : unlikePost_addLike(p)

SpecLikes == Init /\ [][NextLikes]_vars

TypeOK ==
  /\ nextId \in 1..(MaxConn + 1)
  /\ clock \in 0..MaxClock
  /\ \A c \in connections : c.id \in ConnIds /\ c.id < nextId

\* ================================================================ claims
Quiescent == \A p \in Procs : Idle(p)

\* The stored document with the same _id in the next state, if any.
Same(c, d) == c.id = d.id

\* C1: in every reachable state the ledger holds at most one connection
\* record per unordered pair of accounts: never A->B together with B->A and
\* never two records A->B.
C1_OneRecordPerPair ==
  \A c \in connections, d \in connections :
    {c.requester, c.recipient} = {d.requester, d.recipient} => c = d

\* C2: when request-connection calls of the same caller for the same teacher
\* run concurrently, the ledger never holds two records for the ordered pair
\* and, once all calls have answered, exactly one has succeeded (201) and has
\* created the one pending record; every other call has failed with Conflict.
C2_OneCreateWins ==
  /\ \A c \in connections, d \in connections :
       (c.requester = d.requester /\ c.recipient = d.recipient) => c = d
  /\ Quiescent =>
       /\ Cardinality({p \in Procs : procs[p].res = 201}) = 1
       /\ \A p \in Procs :
            procs[p].res # 201 =>
              procs[p].res = 400 /\ procs[p].err = "Conflict"
       /\ Cardinality(connections) = 1
       /\ \A c \in connections : c.status = "pending"

\* C2 witness: all calls have answered and one of them was refused by the
\* unique index, after having passed the pre-check.
C2_Witness ==
  /\ Quiescent
  /\ \E p \in Procs : procs[p].res = 201
  /\ \E p \in Procs : procs[p].msg = "Duplicate field value"

\* C3: the stored status of a record changes only pending -> accepted,
\* pending -> rejected, or pending|accepted -> blocked; an accepted record
\* never becomes rejected or pending, a rejected one never accepted or
\* pending.
C3_StatusTransitions ==
  [][\A c \in connections : \A d \in connections' :
       Same(c, d) =>
         \/ d.status = c.status
         \/ c.status = "pending" /\ d.status \in {"accepted", "rejected"}
         \/ c.status \in {"pending", "accepted"} /\ d.status = "blocked"]_vars

\* C4: acceptedAt is null until the pending -> accepted transition, is
\* written at that transition and is never written again.
C4_AcceptedAtOnce ==
  [][\A c \in connections : \A d \in connections' :
       Same(c, d) =>
         IF c.acceptedAt = Null
           THEN d.acceptedAt # Null =>
                  c.status = "pending" /\ d.status = "accepted"
           ELSE d.acceptedAt = c.acceptedAt]_vars

\* C5: of the accept calls made by the recipient on one connection id,
\* overlapping or not, exactly one returns the accepted record (200) and
\* every other one fails with NotFound (404).
C5_OneAcceptWins ==
  Quiescent =>
    /\ Cardinality({p \in Procs : procs[p].res = 200}) = 1
    /\ \A p \in Procs :
         procs[p].res # 200 =>
           procs[p].res = 404 /\ procs[p].err = "NotFound"

\* C6: a successful accept increases the stored connectionsCount of the
\* requester and of the recipient by exactly 1 each: its update of the
\* requester adds 1 to the requester's count, its update of the recipient
\* adds 1 to the recipient's count.
C6_AcceptIncrementsBoth ==
  [][\A p \in Procs :
       /\ (At(p, "accept", "incRequester") /\ procs'[p] # procs[p]) =>
            users'[procs[p].doc.requester].connectionsCount =
              users[procs[p].doc.requester].connectionsCount + 1
       /\ (At(p, "accept", "incRecipient") /\ procs'[p] # procs[p]) =>
            users'[procs[p].doc.recipient].connectionsCount =
              users[procs[p].doc.recipient].connectionsCount + 1]_vars

\* C7: whenever no request is in flight, each account's connectionsCount
\* equals the number of accepted records in which the account is requester
\* or recipient.
C7_CountMatchesLedger ==
  Quiescent =>
    \A u \in Users :
      users[u].connectionsCount =
        Cardinality({c \in connections :
                       /\ c.status = "accepted"
                       /\ u \in {c.requester, c.recipient}})

\* C8: when accepts and unfollows on different records that share account 1
\* run concurrently, the final connectionsCount of account 1 is its initial
\* value (0) plus the number of successful accepts minus the number of
\* successful unfollows.
C8_NoLostUpdate ==
  Quiescent =>
    users[1].connectionsCount =
      Cardinality({p \in Procs : procs[p].msg =
                     "Connection request accepted successfully"})
      - Cardinality({p \in Procs : procs[p].msg = "Unfollowed successfully"})

\* The request in slot p takes a step.
Steps(p) == procs'[p] # procs[p]

Matches(p) ==
  \E c \in connections :
    /\ c.id = procs[p].arg
    /\ c.recipient = procs[p].user
    /\ c.status = "pending"

\* C10: accept and reject fail with NotFound (404) unless a record exists
\* with the given id, the acting user as recipient and status pending, and
\* such a failure changes no record, counter or notification; a record,
\* counter or notification is only ever changed by an accept or reject whose
\* caller is the recipient of the record with the given id.
C10_GuardOrNotFound ==
  [][\A p \in Procs :
       (procs[p].op \in {"accept", "reject"} /\ Steps(p)) =>
         /\ (procs[p].pc = "findOne" /\ ~Matches(p)) =>
              /\ procs'[p].res = 404
              /\ procs'[p].err = "NotFound"
              /\ UNCHANGED <<users, connections, notifications>>
         /\ (procs[p].pc = "findOne" /\ Matches(p)) =>
              /\ procs'[p].pc = "save"
              /\ procs'[p].doc.id = procs[p].arg
              /\ procs'[p].doc.recipient = procs[p].user
         /\ \A c \in connections :
              c \notin connections' =>
                c.id = procs[p].arg /\ c.recipient = procs[p].user
         /\ (notifications' # notifications \/ users' # users) =>
              /\ procs[p].doc.id = procs[p].arg
              /\ procs[p].doc.recipient = procs[p].user]_vars

\* C10 witness: an accept or reject was answered NotFound while a pending
\* record is in the ledger.
C10_Witness ==
  /\ \E p \in Procs : procs[p].msg = "Connection request not found"
  /\ \E c \in connections : c.status = "pending"

\* C11: a request-connection or follow whose requester is its recipient
\* always fails with InvalidOperation (400): it is refused before any store
\* operation, so none is ever in flight, and the refusal leaves the ledger
\* and the notifications unchanged; no record has requester = recipient.
C11_NoSelfConnection ==
  /\ [](/\ \A p \in Procs :
            procs[p].op \in {"connect", "follow"} =>
              procs[p].user # procs[p].arg
        /\ \A c \in connections : c.requester # c.recipient)
  /\ [][\A p \in Procs :
          (Steps(p) /\ procs'[p].msg \in {"Cannot connect to yourself",
                                          "Cannot follow yourself"}) =>
            /\ procs'[p].res = 400
            /\ procs'[p].err = "InvalidOperation"
            /\ UNCHANGED <<connections, notifications, users>>]_vars

\* C11 witness: a self-request has been refused while the ledger holds a
\* record.
C11_Witness ==
  /\ \E p \in Procs : procs[p].msg = "Cannot follow yourself"
  /\ \E p \in Procs : procs[p].msg = "Cannot connect to yourself"
  /\ connections # {}

\* C12: for distinct accounts A and B, immediately after the insert of a
\* successful request-connection from A to B, getConnection(A, B) and
\* getConnection(B, A) both find exactly one record for the pair: the new
\* one, with requester A, recipient B, status pending and acceptedAt null.
C12_LookupAfterCreate ==
  [][\A p \in Procs :
       (At(p, "connect", "create") /\ procs'[p].pc = "notify") =>
         LET A == procs[p].user
             B == procs[p].arg
         IN  /\ getConnection(connections', A, B) = {procs'[p].doc}
             /\ getConnection(connections', B, A) = {procs'[p].doc}
             /\ procs'[p].doc.requester = A
             /\ procs'[p].doc.recipient = B
             /\ procs'[p].doc.status = "pending"
             /\ procs'[p].doc.acceptedAt = Null]_vars

\* The records of the ledger between accounts a and b, in either direction.
PairRecords(a, b) ==
  {c \in connections : {c.requester, c.recipient} = {a, b}}

Eligible(t) ==
  /\ t \in Users
  /\ users[t].role = "imaam"
  /\ users[t].isVerified
  /\ users[t].isActive

\* C14: a request-connection whose target does not exist, is not an imaam,
\* is not verified or is not active fails with NotFound (404) and changes
\* neither the ledger nor the notifications: no record and no notification
\* ever has such a target as its recipient.
C14_TargetNotFound ==
  /\ [](/\ \A c \in connections : Eligible(c.recipient)
        /\ \A n \in BagToSet(notifications) : Eligible(n.recipient))
  /\ [][\A p \in Procs :
          (At(p, "connect", "findImaam") /\ Steps(p)
             /\ ~Eligible(procs[p].arg)) =>
            /\ procs'[p].pc = "done"
            /\ procs'[p].res = 404
            /\ procs'[p].err = "NotFound"
            /\ UNCHANGED <<connections, notifications, users>>]_vars

\* C14 witness: teacher 2 is active but unverified and every request, none
\* of which has an eligible target, has been answered 404.
C14_Witness ==
  /\ ~users[2].isVerified
  /\ users[2].isActive
  /\ \A p \in Procs : procs[p].msg = "Imaam not found or not verified"

\* C15: a request-connection or accept that has made its change to the
\* ledger and reached its notification write reports success (201
\* respectively 200) and keeps the change, whether or not the notification
\* write fails.
C15_NotificationFailureSwallowed ==
  [][\A p \in Procs :
       /\ (At(p, "connect", "notify") /\ Steps(p)) =>
            /\ procs'[p].res = 201
            /\ connections' = connections
       /\ (At(p, "accept", "notify") /\ Steps(p)) =>
            /\ procs'[p].res = 200
            /\ connections' = connections]_vars

\* C16: every successful accept by T of a request from S creates exactly one
\* connection_accepted notification, with recipient S and sender T, and
\* creates it only after the record's status is accepted and the counters
\* of S and of T have been incremented (from their initial value 0); no
\* other step of an accept, and so no failed accept, creates a notification.
C16_AcceptNotifiesOnce ==
  [][\A p \in Procs :
       (procs[p].op = "accept" /\ Steps(p)) =>
         /\ (procs'[p].res = 200) => procs[p].pc = "notify"
         /\ IF procs[p].pc = "notify" /\ procs'[p].res = 200
              THEN LET S == procs[p].doc.requester
                       T == procs[p].user
                   IN  /\ notifications' = notifications (+) SetToBag(
                            {[recipient |-> S, sender |-> T,
                              type |-> "connection_accepted",
                              relatedEntity |-> procs[p].arg,
                              priority |-> "medium"]})
                       /\ \E c \in connections :
                            c.id = procs[p].arg /\ c.status = "accepted"
                       /\ users[S].connectionsCount >= 1
                       /\ users[T].connectionsCount >= 1
              ELSE notifications' = notifications]_vars

\* The connection_request notifications of a bag.
Requests(notifs) ==
  {n \in BagToSet(notifs) : n.type = "connection_request"}

\* C17: every successful request-connection from S to T creates exactly one
\* connection_request notification, with recipient T and sender S, that
\* refers to the record the request has inserted, and creates it after the
\* insert; a request-connection that fails a guard creates none, and nothing
\* else creates a connection_request notification.
C17_RequestNotifiesOnce ==
  [][/\ \A p \in Procs :
          Steps(p) =>
            /\ (procs'[p].res = 201) => At(p, "connect", "notify")
            /\ (procs'[p].op = "connect" /\ procs'[p].pc = "notify") =>
                 /\ procs'[p].doc \in connections' \ connections
                 /\ procs'[p].doc.requester = procs[p].user
                 /\ procs'[p].doc.recipient = procs[p].arg
            /\ IF At(p, "connect", "notify")
                 THEN /\ procs'[p].res = 201
                      /\ procs[p].doc.requester = procs[p].user
                      /\ procs[p].doc.recipient = procs[p].arg
                      /\ notifications' = notifications (+) SetToBag(
                           {[recipient |-> procs[p].arg,
                             sender |-> procs[p].user,
                             type |-> "connection_request",
                             relatedEntity |-> procs[p].doc.id,
                             priority |-> "medium"]})
                 ELSE /\ Requests(notifications') = Requests(notifications)
                      /\ \A n \in Requests(notifications) :
                           CopiesIn(n, notifications') =
                             CopiesIn(n, notifications)]_vars

\* C17 witness: a request-connection has been answered 201 and the
\* notification for its record, still pending in the ledger, is in the store.
C17_Witness ==
  /\ \E p \in Procs :
       procs[p].res = 201
         /\ procs[p].msg = "Connection request sent successfully"
  /\ \E c \in connections :
       /\ c.status = "pending"
       /\ CopiesIn([recipient |-> c.recipient, sender |-> c.requester,
                    type |-> "connection_request", relatedEntity |-> c.id,
                    priority |-> "medium"],
                   notifications) = 1

\* C18: when P1 has followed P2, so that the pair's one record is the record
\* P1 -> P2 that the follow inserted, and P1 then unfollows P2, the unfollow
\* does not fail: its findOneAndDelete removes the pair's record entirely,
\* leaving no record that could refuse a subsequent follow.
C18_FollowThenUnfollow ==
  [][\A p \in Procs :
       (At(p, "unfollow", "findOneAndDelete") /\ Steps(p)) =>
         \A c \in connections :
           (/\ PairRecords(procs[p].user, procs[p].arg) = {c}
            /\ c.requester = procs[p].user
            /\ c.type = "peer"
            /\ c.status = "pending"
            /\ c.acceptedAt = Null) =>
             /\ procs'[p].res # 404
             /\ procs'[p].pc = "decCurrent"
             /\ connections' = connections \ {c}]_vars

\* C19: an unfollow between U and V succeeds exactly when the ledger holds
\* an accepted record between them, in either direction: it then deletes
\* that record, decrements the connectionsCount of U and of V by 1 each and
\* answers 200; otherwise it fails with 404, deletes nothing and changes no
\* counter.
C19_UnfollowIffAccepted ==
  [][\A p \in Procs :
       (procs[p].op = "unfollow" /\ Steps(p)) =>
         LET U == procs[p].user
             V == procs[p].arg
             acc == {c \in PairRecords(U, V) : c.status = "accepted"}
         IN  /\ (procs[p].pc = "findOneAndDelete") =>
                  IF acc # {}
                    THEN /\ \E c \in acc : connections' = connections \ {c}
                         /\ procs'[p].pc = "decCurrent"
                         /\ users' = users
                    ELSE /\ procs'[p].res = 404
                         /\ procs'[p].err = "NotFound"
                         /\ UNCHANGED <<connections, users>>
             /\ (procs[p].pc = "decCurrent") =>
                  /\ users'[U].connectionsCount =
                       users[U].connectionsCount - 1
                  /\ connections' = connections
             /\ (procs[p].pc = "decTarget") =>
                  /\ users'[V].connectionsCount =
                       users[V].connectionsCount - 1
                  /\ connections' = connections
                  /\ procs'[p].res = 200]_vars

\* C20: the pending-requests listing for user T returns exactly the records
\* whose recipient is T and whose status is pending, newest first and at
\* most pageSize per page: its entries are distinct records that are, when
\* the listing is read, pending with recipient T (so no accepted or rejected
\* record and no record of another recipient); they are in descending order
\* of createdAt; the page holds the records of ranks skip + 1 .. skip +
\* pageSize of that order, where skip = (page - 1) * pageSize, so that page 1
\* of a sufficient size holds every pending request of T, a just created
\* one included.
C20_PendingListing ==
  [][\A p \in Procs :
       (At(p, "list", "find") /\ Steps(p)) =>
         LET T == procs[p].user
             pending == {c \in connections :
                           c.recipient = T /\ c.status = "pending"}
             size == procs[p].limit
             skip == (procs[p].page - 1) * size
             d == procs'[p].data
             n == Len(d)
         IN  /\ procs'[p].res = 200
             /\ \A i \in 1..n : d[i] \in pending
             /\ \A i, j \in 1..n :
                  i < j => d[i] # d[j] /\ d[i].createdAt >= d[j].createdAt
             /\ n <= size
             /\ n = IF Cardinality(pending) - skip < 0 THEN 0
                    ELSE IF Cardinality(pending) - skip < size
                      THEN Cardinality(pending) - skip
                      ELSE size
             /\ \A i \in 1..n :
                  /\ Cardinality({c \in pending :
                                    c.createdAt > d[i].createdAt})
                       <= skip + i - 1
                  /\ Cardinality({c \in pending :
                                    c.createdAt >= d[i].createdAt})
                       >= skip + i
             /\ UNCHANGED <<connections, users, notifications>>]_vars

\* C20 witness: a listing of two requests created at different times has
\* been returned, and a second page with the older of two requests.
C20_Witness ==
  /\ \E p \in Procs :
       /\ procs[p].res = 200
       /\ Len(procs[p].data) = 2
       /\ procs[p].data[1].createdAt > procs[p].data[2].createdAt
  /\ \E p \in Procs :
       /\ procs[p].res = 200
       /\ Len(procs[p].data) = 1
       /\ \E c \in connections :
            /\ c.recipient = procs[p].data[1].recipient
            /\ c.status = "pending"
            /\ c.createdAt > procs[p].data[1].createdAt

\* C21: the list-pending, accept and reject operations are refused (403)
\* for every caller whose role is not imaam: such a call never gets past the
\* route's role check, so none is ever in flight, and the refusal changes no
\* connection record, counter or notification.
C21_TeacherOnly ==
  /\ [](\A p \in Procs :
          procs[p].op \in {"list", "accept", "reject"} =>
            users[procs[p].user].role = "imaam")
  /\ [][\A p \in Procs :
          (Steps(p) /\ procs'[p].msg = "Access denied") =>
            /\ procs'[p].res = 403
            /\ procs'[p].err = "Forbidden"
            /\ procs'[p].pc = "done"
            /\ UNCHANGED <<connections, users, notifications>>]_vars

\* C21 witness: a call has been refused with 403 while a teacher has a
\* pending request and another call of a teacher is in flight.
C21_Witness ==
  /\ \E p \in Procs : procs[p].res = 403 /\ procs[p].msg = "Access denied"
  /\ \E p \in Procs : procs[p].op \in {"list", "accept", "reject"}
  /\ \E c \in connections : c.status = "pending"

\* C22: every notification created through createNotification or
\* createSystemNotification has the priority supplied with the call when
\* one is supplied (low, medium, high or urgent, for every type), and
\* otherwise the entry of the type -> priority table for its type.
C22_CreatedPriority ==
  [][\A p \in Procs :
       (procs[p].op \in {"createNotification", "createSystemNotification"}
          /\ Steps(p)) =>
         /\ notifications' # notifications
         /\ \A n \in BagToSet(notifications') :
              CopiesIn(n, notifications') > CopiesIn(n, notifications) =>
                /\ n.type = procs[p].body.type
                /\ n.priority =
                     IF procs[p].body.priority # "none"
                       THEN procs[p].body.priority
                       ELSE priorityMap(n.type)]_vars

\* C23: after any sequence of register calls no two accounts have the same
\* email, compared case-insensitively; a register call whose email is held
\* by an account, in any spelling, fails with 400 'User with this email
\* already exists' and creates no account.
C23_UniqueEmail ==
  /\ [](\A u, v \in Users :
          u # v => lowercase(users[u].email) # lowercase(users[v].email))
  /\ [][\A p \in Procs :
          (At(p, "register", "findOne") /\ Steps(p)
             /\ \E u \in Users : lowercase(users[u].email) =
                                   lowercase(procs[p].body.email)) =>
            /\ procs'[p].pc = "done"
            /\ procs'[p].res = 400
            /\ procs'[p].msg = "User with this email already exists"
            /\ users' = users]_vars

\* C23 witness: two accounts have been registered and a register call has
\* been refused for an email that is held.
C23_Witness ==
  /\ \E u \in Users : users[u].email = "a@x.com"
  /\ \E u \in Users : users[u].email = "b@x.com"
  /\ \E p \in Procs : procs[p].msg = "User with this email already exists"

\* C24: when the save of a like request by user U succeeds, the post is
\* liked by U (U is in its likes, and the response's isLiked is true),
\* whether or not U had liked it before; when the save of an unlike request
\* by U succeeds, the post is not liked by U (and isLiked is false), whether
\* or not U had liked it before.
C24_LikeThenLiked ==
  [][\A p \in Procs :
       (procs[p].op \in {"like", "unlike"} /\ Steps(p)) =>
         /\ (procs[p].pc = "addLike" /\ procs'[p].res # 500) =>
              (isLikedBy(posts'[procs[p].arg], procs[p].user)
                 <=> procs[p].op = "like")
         /\ (procs'[p].res = 200) =>
              (procs'[p].data[1].isLiked <=> procs[p].op = "like")]_vars

\* C30: whenever no like or unlike request is in flight, for every post
\* likesCount equals the number of entries of likes and no user appears
\* twice in likes.
C30_LikesCountMatches ==
  Quiescent =>
    \A i \in DOMAIN posts :
      /\ posts[i].likesCount = Len(posts[i].likes)
      /\ \A j, k \in DOMAIN posts[i].likes :
           j # k => posts[i].likes[j] # posts[i].likes[k]

C26_RerequestAfterReject ==
  [][\A p \in Procs :
       (procs[p].op = "connect" /\ Steps(p)) =>
         \A c \in connections :
           (c.requester = procs[p].user /\ c.recipient = procs[p].arg
              /\ c.status = "rejected") =>
             /\ (procs[p].pc = "getConnection"
                   /\ PairRecords(procs[p].user, procs[p].arg) = {c}) =>
                  procs'[p].pc = "create"
             /\ (procs[p].pc = "create") =>
                  /\ procs'[p].pc = "done"
                  /\ procs'[p].err # "none"
                  /\ procs'[p].res >= 400
                  /\ UNCHANGED <<connections, notifications, nextId>>]_vars

\* C26 witness: the second request has failed at the insert; the ledger
\* holds the rejected record alone and the one notification of the first
\* request.
C26_Witness ==
  /\ \E p \in Procs : procs[p].msg = "Duplicate field value"
  /\ \E c \in connections : connections = {c} /\ c.status = "rejected"
  /\ BagCardinality(notifications) = 1

\* ---------------------------------------------------------- deleteProfile
\* Deletions of one account that the model follows.
MaxDeletes == 1

\* `deleted_${Date.now()}_${req.user.email}`
deletedEmail(now, email) == "deleted_" \o ToString(now) \o "_" \o email

\* The emails an account created as e can hold after k deletions.
RECURSIVE emailsAfter(_, _)
emailsAfter(e, k) ==
  IF k = 0 THEN {e}
  ELSE {deletedEmail(t, d) : t \in 0..MaxClock, d \in emailsAfter(e, k - 1)}

\* User.findByIdAndUpdate(req.user._id, { isActive: false, email: ... })
deactivate(us, userId, now) ==
  [us EXCEPT ![userId].isActive = FALSE,
             ![userId].email = deletedEmail(now, us[userId].email)]

\* deleteProfile: the one update and the 200 response.
deleteProfile(p) ==
  /\ Idle(p)
  /\ \E u \in Parties :
       /\ \E k \in 0..(MaxDeletes - 1) :
            users[u].email \in emailsAfter(accountEmail[u], k)
       /\ users' = deactivate(users, u, clock)
  /\ SetProc(p, Respond(p, 200, "Account deleted successfully"))
  /\ UNCHANGED <<connections, nextId, notifications, clock>>
  /\ UNCHANGED posts

\* Profiles are deleted while connections are requested, followed and
\* accepted.
NextDeactivate ==
  \/ \E p \in Procs : deleteProfile(p)
  \/ \E p \in Procs : requestConnection_begin(p)
  \/ \E p \in Procs : requestConnection_findImaam(p)
  \/ \E p \in Procs : requestConnection_getConnection(p)
  \/ \E p \in Procs : requestConnection_create(p)
  \/ \E p \in Procs : requestConnection_notify(p)
  \/ \E p \in Procs : followUser_begin(p)
  \/ \E p \in Procs : followUser_findTarget(p)
  \/ \E p \in Procs : followUser_findExisting(p)
  \/ \E p \in Procs : followUser_create(p)
  \/ \E p \in Procs : acceptConnection_begin(p)
  \/ \E p \in Procs : acceptConnection_findOne(p)
  \/ \E p \in Procs : acceptConnection_save(p)
  \/ \E p \in Procs : acceptConnection_incRequester(p)
  \/ \E p \in Procs : acceptConnection_incRecipient(p)
  \/ \E p \in Procs : acceptConnection_notify(p)
  \/ Tick

SpecDeactivate == Init /\ [][NextDeactivate]_vars

\* C27: no account is ever removed and an inactive account never becomes
\* active again; deleting a profile sets the caller's account inactive and
\* leaves every connection record, every connectionsCount and every other
\* account as they were; a request-connection or a follow whose target
\* lookup runs on an inactive account ends there with 404 and writes
\* nothing.
C27_DeactivationOnly ==
  /\ [](DOMAIN users = DOMAIN accounts)
  /\ [][/\ \A u \in DOMAIN users : ~users[u].isActive => ~users'[u].isActive
        /\ \A u \in DOMAIN users :
             (users[u].isActive /\ ~users'[u].isActive) =>
               /\ users' = [users EXCEPT ![u].isActive = FALSE,
                                         ![u].email = users'[u].email]
               /\ UNCHANGED <<connections, nextId, notifications>>
        /\ \A p \in Procs :
             (Steps(p)
                /\ (At(p, "connect", "findImaam")
                      \/ At(p, "follow", "findTarget"))
                /\ ~users[procs[p].arg].isActive) =>
               /\ procs'[p].pc = "done"
               /\ procs'[p].res = 404
               /\ UNCHANGED <<users, connections, nextId,
                              notifications>>]_vars

\* C27 witness: teacher 2, who holds an accepted connection, has deleted
\* the profile; a follow has been answered 'User not found', which only an
\* inactive target gives, and a request-connection has been answered 404.
C27_Witness ==
  /\ ~users[2].isActive
  /\ \E c \in connections : c.recipient = 2 /\ c.status = "accepted"
  /\ \E p \in Procs : procs[p].msg = "Imaam not found or not verified"
  /\ \E p \in Procs : procs[p].msg = "User not found"

\* ----------------------------------- both parties unfollow at the same time
\* The ledger holds one accepted record between two accounts, accepted by
\* its recipient, a teacher.  The slots hold unfollow calls of the two
\* parties for each other: one party in the odd slots, the other in the
\* even ones.
InitUnfollowRace ==
  /\ users = accounts
  /\ nextId = 2
  /\ clock = 0
  /\ \E a \in Users, b \in Teachers, swap \in BOOLEAN :
       /\ a # b
       /\ connections =
            {[newConnection(1, a, b, "student-teacher", 0) EXCEPT
                !.status = "accepted", !.acceptedAt = 0]}
       /\ notifications =
            createNotification(
              createNotification(EmptyBag, b, a, "connection_request", 1),
              a, b, "connection_accepted", 1)
       /\ procs = [p \in Procs |->
                     IF (p % 2 = 1) = swap
                       THEN Begin(p, "unfollow", a, b, "findOneAndDelete")
                       ELSE Begin(p, "unfollow", b, a, "findOneAndDelete")]
  /\ posts = publishedPosts

NextUnfollowRace ==
  \/ \E p \in Procs : unfollowUser_findOneAndDelete(p)
  \/ \E p \in Procs : unfollowUser_decCurrent(p)
  \/ \E p \in Procs : unfollowUser_decTarget(p)
  \/ Tick

SpecUnfollowRace == InitUnfollowRace /\ [][NextUnfollowRace]_vars

\* Both calls have answered: one has succeeded, the other has answered 404,
\* and the record is gone.
OneUnfollowWins ==
  Quiescent =>
    /\ \E p \in Procs :
         /\ procs[p].res = 200
         /\ \A q \in Procs \ {p} : procs[q].res = 404
    /\ connections = {}

\* C28: when the two parties of the accepted record have both unfollowed
\* each other at the same time and both calls have answered, exactly one
\* call has succeeded and the other has answered 404, the record is gone,
\* and the connectionsCount of each of the two parties is one less than
\* before, every other account's being unchanged.
C28_UnfollowRaceOnce ==
  /\ OneUnfollowWins
  /\ Quiescent =>
       \E a \in Users, b \in Users :
         /\ a # b
         /\ users = [accounts EXCEPT ![a].connectionsCount = @ - 1,
                                     ![b].connectionsCount = @ - 1]

\* A pending record that a follow inserted for a recipient who is not a
\* teacher.
StrandedFollow(c) ==
  /\ c.type = "peer"
  /\ c.status = "pending"
  /\ users[c.recipient].role # "imaam"

\* No step changes or removes the record of a follow to an account that is
\* not a teacher.
StrandedFollowStays ==
  [][\A c \in connections : StrandedFollow(c) => c \in connections']_vars

\* C29: the record of a follow whose recipient is not a teacher stays in the
\* ledger as it is, pending, through every step; a further follow of the
\* same recipient by the same caller is refused at the existing-connection
\* check with 'Connection request already pending', and an unfollow between
\* the two answers 404.
C29_FollowStaysPending ==
  [][\A c \in connections :
       StrandedFollow(c) =>
         /\ c \in connections'
         /\ \A p \in Procs :
              /\ (At(p, "follow", "getConnection") /\ Steps(p)
                    /\ procs[p].user = c.requester
                    /\ procs[p].arg = c.recipient) =>
                   /\ procs'[p].res = 400
                   /\ procs'[p].msg = "Connection request already pending"
              /\ (At(p, "unfollow", "findOneAndDelete") /\ Steps(p)
                    /\ {procs[p].user, procs[p].arg} =
                         {c.requester, c.recipient}) =>
                   procs'[p].res = 404]_vars

====
